---- MODULE Spec2Model ----
(***************************************************************************)
(* A model of os1shell (src/os1shell.c): the child registry                *)
(* (children / numChildren, addChild, removeChild, cleanup), the history   *)
(* ring (history / histInd, recordcmd, printHistory), the tokenizer and    *)
(* background-marker detection of execcmd, and the main read loop with     *)
(* its asynchronous signal handler.                                        *)
(*                                                                         *)
(* Memory is modelled explicitly where the code uses pointers: a registry  *)
(* slot holds the address of a malloc'ed pid cell, `heap' records for each *)
(* cell whether it is live and what a read of it yields.  Undefined        *)
(* behaviour that the model does not follow any further (a store outside   *)
(* an array, a second free of a cell, a NULL dereference) sets `fault',    *)
(* after which no action of the program is enabled.                        *)
(***************************************************************************)
EXTENDS Integers, Sequences, FiniteSets, TLC

----------------------------------------------------------------------------
(* Program constants *)

MAX_ARGS == 10
HISTORY_SIZE == 20
ChildrenLen == 32
NULL == 0

(* Bounds of the model *)

MaxPid == 33          \* pids handed out in the registry specification
MaxChurn == 3         \* removeChild is called while at most MaxChurn pids
                      \* have been handed out, with a pid in 1..MaxChurn
MaxLines == 22        \* lines recorded in the history specification
MaxWords == 11        \* words on a line in the tokenizer specification
MaxSpawn == 2         \* successful forks in one session of the shell
MaxCmds == 2          \* lines read in one session of the shell

----------------------------------------------------------------------------
VARIABLES
    children,      \* pid_t* children[32]: slot -> address (NULL = 0)
    numChildren,   \* int numChildren
    heap,          \* malloc'ed pid cells: address -> [live, val]
    freeList,      \* freed cells, most recently freed first
    reuse,         \* the allocator hands a freed cell out again (LIFO), or
                   \* never does during the run
    fault,         \* "none", or the undefined behaviour that stopped the run
    nextPid,       \* next pid the kernel hands out
    members,       \* ghost: the mathematical set of insert/delete
    lastOp,        \* ghost: the last call made and its inputs
    history,       \* char* history[HISTORY_SIZE]: slot -> entry (NULL = 0)
    histInd,       \* int histInd
    entries,       \* malloc'ed history entries: address -> [live, text]
    out,           \* the lines the last printHistory wrote
    recorded,      \* ghost: every line handed to recordcmd, in order
    rpc,           \* where a recordcmd call in progress stands, or "idle"
    buff,          \* char buff[]: the characters read, up to the newline
    words,         \* ghost: the words the line was typed from
    argv,          \* execcmd's tokens[], up to the terminating NULL
    background,    \* execcmd's local background
    pc,            \* where the main flow stands
    r,             \* main's r: what the last read returned
    interrupted,   \* int interrupted
    forkPid,       \* execcmd's local pid: what fork returned
    ret,           \* what the last execcmd call returned (0: none yet)
    procs,         \* the kernel's view of each child
    killed,        \* the pids cleanup passed to kill(.., SIGKILL)
    sigchldPending,\* a SIGCHLD is pending (pending signals do not queue)
    chldBlocked,   \* SIGCHLD is in the signal mask of the main flow
    hpc,           \* "chld" while the SIGCHLD handler runs, else "none"
    ci,            \* cleanup's loop index i
    cmdCount       \* lines read so far

regVars == <<children, numChildren, heap, freeList, reuse, nextPid, members>>
histVars == <<history, histInd, entries, out, recorded, rpc>>
cmdVars == <<buff, words, argv, background>>
shellVars == <<pc, r, interrupted, forkPid, ret, procs, killed,
               sigchldPending, chldBlocked, hpc, ci, cmdCount>>
vars == <<regVars, histVars, cmdVars, shellVars, fault, lastOp>>

----------------------------------------------------------------------------
(* The child registry as a value, so that the loops of the code can be     *)
(* written as operators.                                                   *)

Registry == [children |-> children, numChildren |-> numChildren,
             heap |-> heap, freeList |-> freeList, fault |-> fault]

EmptyChildren == [i \in 0..(ChildrenLen - 1) |-> NULL]

(* malloc returns a cell that is not live: the most recently freed one     *)
(* when the allocator reuses cells, a fresh one otherwise.                 *)
Malloc(reg, ru) ==
    IF ru /\ reg.freeList # <<>> THEN Head(reg.freeList) ELSE Len(reg.heap) + 1

(* addChild, lines 207-209: child = malloc; *child = pid;                  *)
(* children[numChildren++] = child.  There is no bound check.              *)
AddChildStore(reg, pid, ru) ==
    LET addr == Malloc(reg, ru)
        h == IF addr = Len(reg.heap) + 1
             THEN Append(reg.heap, [live |-> TRUE, val |-> pid])
             ELSE [reg.heap EXCEPT ![addr] = [live |-> TRUE, val |-> pid]]
        fl == IF addr = Len(reg.heap) + 1 THEN reg.freeList
              ELSE Tail(reg.freeList)
        n == reg.numChildren
    IN  IF n \in 0..(ChildrenLen - 1)
        THEN [children |-> [reg.children EXCEPT ![n] = addr],
              numChildren |-> n + 1, heap |-> h, freeList |-> fl,
              fault |-> reg.fault]
        ELSE [children |-> reg.children,
              numChildren |-> n + 1, heap |-> h, freeList |-> fl,
              fault |-> "oob_add"]

(* removeChild, lines 224-233.  The loop bound numChildren is re-read on   *)
(* every iteration; openIndex starts with whatever the stack holds; clob   *)
(* says whether the allocator overwrites the freed cell.                   *)
RECURSIVE RemoveLoop(_, _, _, _, _)
RemoveLoop(reg, pid, i, openIndex, clob) ==
    IF reg.fault # "none" \/ i >= reg.numChildren THEN reg
    ELSE LET a == reg.children[i]
             cell == reg.heap[a]
         IN  IF cell.val = pid
             THEN IF ~cell.live
                  THEN [reg EXCEPT !.fault = "double_free"]
                  ELSE RemoveLoop(
                         [reg EXCEPT
                            !.heap = [@ EXCEPT ![a] =
                                        [live |-> FALSE,
                                         val |-> IF clob THEN 0 ELSE pid]],
                            !.freeList = <<a>> \o @,
                            !.numChildren = @ - 1],
                         pid, i + 1, i, clob)
             ELSE IF openIndex # 0
                  THEN IF i = 0
                       THEN [reg EXCEPT !.fault = "oob_remove"]
                       ELSE RemoveLoop(
                              [reg EXCEPT !.children =
                                  [@ EXCEPT ![i - 1] = reg.children[i]]],
                              pid, i + 1, openIndex, clob)
                  ELSE RemoveLoop(reg, pid, i + 1, openIndex, clob)

RemoveChild(reg, pid, openIndex, clob) == RemoveLoop(reg, pid, 0, openIndex, clob)

(* The pids a reader of children[0..numChildren-1] finds.                  *)
SlotsInUse(reg) ==
    {i \in 0..(ChildrenLen - 1) : i < reg.numChildren}

HeldPids(reg) == {reg.heap[reg.children[i]].val : i \in SlotsInUse(reg)}

----------------------------------------------------------------------------
(* The history ring *)

History == [history |-> history, histInd |-> histInd, entries |-> entries]

EmptyHistory == [i \in 0..(HISTORY_SIZE - 1) |-> NULL]

(* recordcmd, statement by statement.  Its locals are read off the        *)
(* state: old is history[histInd] until the slot is overwritten, entry is  *)
(* the newest allocation.                                                  *)

(* lines 103-106: old = history[histInd]; entry = malloc; strcpy. *)
RecordCopy(h, line) ==
    [h EXCEPT !.entries = Append(@, [live |-> TRUE, text |-> line])]

(* line 107: free(old); free(NULL) does nothing. *)
RecordFree(h) ==
    LET old == h.history[h.histInd]
    IN  IF old = NULL THEN h
        ELSE [h EXCEPT !.entries = [@ EXCEPT ![old].live = FALSE]]

(* line 109: history[histInd] = entry. *)
RecordStore(h) ==
    [h EXCEPT !.history = [@ EXCEPT ![h.histInd] = Len(h.entries)]]

(* line 112: histInd advances circularly. *)
RecordAdvance(h) ==
    [h EXCEPT !.histInd = IF @ + 1 > HISTORY_SIZE - 1 THEN 0 ELSE @ + 1]

(* recordcmd, lines 103-112, as one call. *)
RecordCmd(h, line) ==
    RecordAdvance(RecordStore(RecordFree(RecordCopy(h, line))))

(* The slots whose entry has been freed. *)
FreedSlots(h) ==
    {i \in DOMAIN h.history :
        h.history[i] # NULL /\ ~h.entries[h.history[i]].live}

(* printHistory, lines 118-129: a do-while from histInd round to histInd,  *)
(* printing the slots that are not NULL.                                   *)
RECURSIVE PrintLoop(_, _, _)
PrintLoop(h, printInd, acc) ==
    LET printed == IF h.history[printInd] # NULL
                   THEN Append(acc, h.entries[h.history[printInd]].text)
                   ELSE acc
        next == IF printInd + 1 > HISTORY_SIZE - 1 THEN 0 ELSE printInd + 1
    IN  IF next # h.histInd THEN PrintLoop(h, next, printed) ELSE printed

(* A printHistory that starts at slot 0 instead of histInd. *)
PrintHistoryFromZero(h) == PrintLoop([h EXCEPT !.histInd = 0], 0, <<>>)

PrintHistory(h) == PrintLoop(h, h.histInd, <<>>)

HistInit ==
    /\ history = EmptyHistory
    /\ histInd = 0
    /\ entries = <<>>
    /\ out = <<>>
    /\ recorded = <<>>
    /\ rpc = "idle"

SetHistory(h) ==
    /\ history' = h.history
    /\ histInd' = h.histInd
    /\ entries' = h.entries

----------------------------------------------------------------------------
(* execcmd's tokenizer and background-marker detection.  A line is a       *)
(* sequence of one-character strings.                                      *)

Front(seq) == SubSeq(seq, 1, Len(seq) - 1)
Last(seq) == seq[Len(seq)]

FirstDelims == {" ", "\r", "\n"}     \* strtok(cmd, " \r\n"), line 151
NextDelims == {" "}                  \* strtok(NULL, " "), line 154

(* strtok from position pos: skip delimiters, take the characters up to    *)
(* the next delimiter; found is FALSE for a NULL result.                   *)
Strtok(str, pos, delims) ==
    LET starts == {k \in pos..Len(str) : str[k] \notin delims}
    IN  IF starts = {}
        THEN [found |-> FALSE, tok |-> <<>>, next |-> Len(str) + 1]
        ELSE LET start == CHOOSE k \in starts : \A m \in starts : k <= m
                 ends == {k \in start..Len(str) : str[k] \in delims}
                 end == IF ends = {} THEN Len(str) + 1
                        ELSE CHOOSE k \in ends : \A m \in ends : k <= m
             IN  [found |-> TRUE, tok |-> SubSeq(str, start, end - 1),
                  next |-> end + 1]

(* lines 152-156: while( i < MAX_ARGS && token != NULL )                   *)
RECURSIVE TokLoop(_, _, _)
TokLoop(str, t, toks) ==
    IF Len(toks) < MAX_ARGS /\ t.found
    THEN TokLoop(str, Strtok(str, t.next, NextDelims), Append(toks, t.tok))
    ELSE toks

Tokenize(str) == TokLoop(str, Strtok(str, 1, FirstDelims), <<>>)

(* lines 149-167.  tokens[i] = NULL is a store past the array when         *)
(* i = MAX_ARGS; tokens[0][...] dereferences NULL when there is no token.  *)
ExecParse(str) ==
    LET toks == Tokenize(str)
        i == Len(toks)
    IN  IF i = MAX_ARGS
        THEN [argv |-> toks, background |-> 0, fault |-> "oob_tokens"]
        ELSE IF i = 0
        THEN [argv |-> toks, background |-> 0, fault |-> "null_deref"]
        ELSE IF Last(toks[1]) = "&"
        THEN [argv |-> [toks EXCEPT ![1] = Front(toks[1])],
              background |-> 1, fault |-> "none"]
        ELSE IF toks[i] = <<"&">>
        THEN [argv |-> Front(toks), background |-> 1, fault |-> "none"]
        ELSE [argv |-> toks, background |-> 0, fault |-> "none"]

(* The line typed from a sequence of words: the words separated by one     *)
(* space, after lead spaces and before trail spaces.                       *)
RECURSIVE Join(_)
Join(ws) ==
    IF ws = <<>> THEN <<>>
    ELSE IF Len(ws) = 1 THEN ws[1]
    ELSE ws[1] \o <<" ">> \o Join(Tail(ws))

Spaces(n) == [k \in 1..n |-> " "]

TypedLine(ws, lead, trail) == Spaces(lead) \o Join(ws) \o Spaces(trail)

CmdInit ==
    /\ buff = <<>>
    /\ words = <<>>
    /\ argv = <<>>
    /\ background = 0

ShellInit ==
    /\ pc = "read"
    /\ r = 0
    /\ interrupted = 0
    /\ forkPid = 0
    /\ ret = 0
    /\ procs = [p \in 1..MaxSpawn |-> "none"]
    /\ killed = {}
    /\ sigchldPending = FALSE
    /\ chldBlocked = FALSE
    /\ hpc = "none"
    /\ ci = 0
    /\ cmdCount = 0

----------------------------------------------------------------------------
(* Specification of the registry alone: any sequence of addChild and       *)
(* removeChild calls, each pid registered once.                            *)

RegVarsInit ==
    /\ children = EmptyChildren
    /\ numChildren = 0
    /\ heap = <<>>
    /\ freeList = <<>>
    /\ nextPid = 1
    /\ members = {}

NoOp == [op |-> "init", pid |-> 0, openIndex |-> 0]

RegInit ==
    /\ RegVarsInit
    /\ HistInit
    /\ CmdInit
    /\ ShellInit
    /\ reuse \in BOOLEAN
    /\ fault = "none"
    /\ lastOp = NoOp

SetRegistry(reg) ==
    /\ children' = reg.children
    /\ numChildren' = reg.numChildren
    /\ heap' = reg.heap
    /\ freeList' = reg.freeList
    /\ fault' = reg.fault

RegAdd ==
    /\ fault = "none"
    /\ nextPid <= MaxPid
    /\ SetRegistry(AddChildStore(Registry, nextPid, reuse))
    /\ members' = members \cup {nextPid}
    /\ lastOp' = [op |-> "add", pid |-> nextPid, openIndex |-> 0]
    /\ nextPid' = nextPid + 1
    /\ UNCHANGED <<reuse, histVars, cmdVars, shellVars>>

RegRemove ==
    /\ fault = "none"
    /\ nextPid <= MaxChurn + 1
    /\ \E pid \in 1..MaxChurn, openIndex \in {0, 1}, clob \in BOOLEAN :
          /\ SetRegistry(RemoveChild(Registry, pid, openIndex, clob))
          /\ members' = members \ {pid}
          /\ lastOp' = [op |-> "remove", pid |-> pid, openIndex |-> openIndex]
    /\ UNCHANGED <<nextPid, reuse, histVars, cmdVars, shellVars>>

RegNext == RegAdd \/ RegRemove

SpecRegistry == RegInit /\ [][RegNext]_vars

----------------------------------------------------------------------------
(* Specification of the history ring alone: distinct lines are recorded    *)
(* one after the other, and the SIGINT handler may print the history       *)
(* between any two statements of recordcmd ("print_in_call") as well as    *)
(* between two calls ("print").  Printing a freed entry is a fault.        *)

HistSpecInit ==
    /\ RegVarsInit
    /\ HistInit
    /\ CmdInit
    /\ ShellInit
    /\ reuse = FALSE
    /\ fault = "none"
    /\ lastOp = NoOp

HistRecordCopy ==
    /\ fault = "none" /\ rpc = "idle"
    /\ Len(recorded) < MaxLines
    /\ SetHistory(RecordCopy(History, Len(recorded) + 1))
    /\ rpc' = "free"
    /\ UNCHANGED <<regVars, cmdVars, shellVars, fault, out, recorded, lastOp>>

HistRecordFree ==
    /\ fault = "none" /\ rpc = "free"
    /\ SetHistory(RecordFree(History))
    /\ rpc' = "store"
    /\ UNCHANGED <<regVars, cmdVars, shellVars, fault, out, recorded, lastOp>>

HistRecordStore ==
    /\ fault = "none" /\ rpc = "store"
    /\ SetHistory(RecordStore(History))
    /\ rpc' = "advance"
    /\ UNCHANGED <<regVars, cmdVars, shellVars, fault, out, recorded, lastOp>>

HistRecordAdvance ==
    /\ fault = "none" /\ rpc = "advance"
    /\ SetHistory(RecordAdvance(History))
    /\ recorded' = Append(recorded, Len(recorded) + 1)
    /\ rpc' = "idle"
    /\ lastOp' = [op |-> "record", pid |-> 0, openIndex |-> 0]
    /\ UNCHANGED <<regVars, cmdVars, shellVars, fault, out>>

HistPrint ==
    /\ fault = "none"
    /\ out' = PrintHistory(History)
    /\ fault' = IF FreedSlots(History) # {} THEN "use_after_free" ELSE fault
    /\ lastOp' = [op |-> IF rpc = "idle" THEN "print" ELSE "print_in_call",
                  pid |-> 0, openIndex |-> 0]
    /\ UNCHANGED <<regVars, cmdVars, shellVars, history, histInd, entries,
                   recorded, rpc>>

HistNext ==
    \/ HistRecordCopy \/ HistRecordFree \/ HistRecordStore
    \/ HistRecordAdvance \/ HistPrint

SpecHistory == HistSpecInit /\ [][HistNext]_vars

----------------------------------------------------------------------------
(* Specification of the command parser alone: execcmd's tokenizer and      *)
(* marker detection applied to typed lines.  A typed line has up to        *)
(* MaxWords words; the first and the last word are drawn from WordChoices, *)
(* the words between them are plain.                                       *)

WordChoices == {<<"a">>, <<"a", "&">>, <<"&">>}

TypedWords ==
    {<<>>} \cup {<<w>> : w \in WordChoices} \cup
    {<<f>> \o [k \in 1..m |-> <<"a">>] \o <<l>> :
        f \in WordChoices, l \in WordChoices, m \in 0..(MaxWords - 2)}

ParseInit ==
    /\ RegVarsInit
    /\ HistInit
    /\ CmdInit
    /\ ShellInit
    /\ reuse = FALSE
    /\ fault = "none"
    /\ lastOp = NoOp

ParseType ==
    /\ lastOp.op = "init"
    /\ \E ws \in TypedWords, lead \in 0..1, trail \in 0..1 :
          /\ words' = ws
          /\ buff' = TypedLine(ws, lead, trail)
    /\ lastOp' = [op |-> "typed", pid |-> 0, openIndex |-> 0]
    /\ UNCHANGED <<regVars, histVars, shellVars, argv, background, fault>>

ParseExec ==
    /\ lastOp.op = "typed"
    /\ LET p == ExecParse(buff)
       IN  /\ argv' = p.argv
           /\ background' = p.background
           /\ fault' = p.fault
    /\ lastOp' = [op |-> "parsed", pid |-> 0, openIndex |-> 0]
    /\ UNCHANGED <<regVars, histVars, shellVars, buff, words>>

ParseNext == ParseType \/ ParseExec

SpecParse == ParseInit /\ [][ParseNext]_vars

----------------------------------------------------------------------------
(* Specification of the shell: the main flow of main and execcmd, one      *)
(* action per step between two points where a signal handler can run, the  *)
(* children, and the signal handler.  The handler preempts the main flow:  *)
(* no main step is taken while hpc = "chld".                               *)

(* What the user types in a session: a bare newline, a blank line, a       *)
(* command, a command with the background marker.                          *)
ShellTyped ==
    {[words |-> <<>>, lead |-> 0],
     [words |-> <<>>, lead |-> 1],
     [words |-> << <<"a">> >>, lead |-> 0],
     [words |-> << <<"a">>, <<"&">> >>, lead |-> 0]}

(* A child is "forked" until it calls execvp, "running" once the program   *)
(* runs, a zombie from its exit ("zombie_noexec": exit(-1) after a failed  *)
(* execvp) until it is reaped, by wait in execcmd ("reaped_wait") or by    *)
(* the handler ("reaped_now" until the handler returns, "reaped_handler"   *)
(* from then on).                                                          *)
Zombies == {p \in DOMAIN procs : procs[p] \in {"zombie", "zombie_noexec"}}
Running(p) == procs[p] \in {"forked", "running"}

MainRuns == fault = "none" /\ hpc = "none"

(* A handler that returns while the main flow is in read: the read either  *)
(* goes on (the signal came before the call, or the call is restarted) or  *)
(* returns -1 without having read anything.                                *)
ResumeMain ==
    \/ UNCHANGED <<pc, r>>
    \/ /\ pc = "read"
       /\ r' = -1
       /\ pc' = "while"

Init ==
    /\ RegVarsInit
    /\ HistInit
    /\ CmdInit
    /\ ShellInit
    /\ reuse \in BOOLEAN
    /\ fault = "none"
    /\ lastOp = NoOp

(* line 48: read returns a line with its newline. *)
ReadLine ==
    /\ MainRuns /\ pc = "read"
    /\ cmdCount < MaxCmds
    /\ \E t \in ShellTyped :
          /\ words' = t.words
          /\ buff' = TypedLine(t.words, t.lead, 0)
          /\ r' = Len(TypedLine(t.words, t.lead, 0)) + 1
    /\ cmdCount' = cmdCount + 1
    /\ pc' = "while"
    /\ UNCHANGED <<regVars, histVars, argv, background, interrupted, forkPid,
                   ret, procs, killed, sigchldPending,
                   chldBlocked, hpc, ci, fault, lastOp>>

(* line 48: read returns 0 at end of input.  lastOp remembers that it did: *)
(* on a terminal a later read can return a line again (ReadLine), on a     *)
(* pipe or a file it returns 0 again.                                      *)
ReadEof ==
    /\ MainRuns /\ pc = "read"
    /\ r' = 0
    /\ pc' = "while"
    /\ lastOp' = [op |-> "eof", pid |-> 0, openIndex |-> 0]
    /\ UNCHANGED <<regVars, histVars, cmdVars, interrupted, forkPid, ret,
                   procs, killed, sigchldPending, chldBlocked,
                   hpc, ci, cmdCount, fault>>

(* A loop condition that tests r > 0 only. *)
LoopTestReadOnly ==
    /\ MainRuns /\ pc = "while"
    /\ IF r > 0
       THEN pc' = "if" /\ ci' = ci
       ELSE pc' = "cleanup" /\ ci' = 0
    /\ UNCHANGED <<regVars, histVars, cmdVars, r, interrupted, forkPid, ret,
                   procs, killed, sigchldPending, chldBlocked,
                   hpc, cmdCount, fault, lastOp>>

(* line 48: the loop condition r > 0 || interrupted. *)
LoopTest ==
    /\ MainRuns /\ pc = "while"
    /\ IF r > 0 \/ interrupted # 0
       THEN pc' = "if" /\ ci' = ci
       ELSE pc' = "cleanup" /\ ci' = 0
    /\ UNCHANGED <<regVars, histVars, cmdVars, r, interrupted, forkPid, ret,
                   procs, killed, sigchldPending, chldBlocked,
                   hpc, cmdCount, fault, lastOp>>

(* line 50: if(r > 1 && !interrupted). *)
BodyTest ==
    /\ MainRuns /\ pc = "if"
    /\ pc' = IF r > 1 /\ interrupted = 0 THEN "record" ELSE "clear"
    /\ UNCHANGED <<regVars, histVars, cmdVars, r, interrupted, forkPid, ret,
                   procs, killed, sigchldPending, chldBlocked,
                   hpc, ci, cmdCount, fault, lastOp>>

(* lines 52-55: the newline is cut off and the line is recorded. *)
Record ==
    /\ MainRuns /\ pc = "record"
    /\ SetHistory(RecordCmd(History, buff))
    /\ recorded' = Append(recorded, buff)
    /\ pc' = "exec"
    /\ UNCHANGED <<regVars, cmdVars, out, rpc, r, interrupted, forkPid, ret,
                   procs, killed, sigchldPending, chldBlocked,
                   hpc, ci, cmdCount, fault, lastOp>>

(* lines 143-167: execcmd splits the line and looks for the marker. *)
Exec ==
    /\ MainRuns /\ pc = "exec"
    /\ LET p == ExecParse(buff)
       IN  /\ argv' = p.argv
           /\ background' = p.background
           /\ fault' = p.fault
           /\ pc' = IF p.fault = "none" THEN "fork" ELSE pc
    /\ ret' = 0
    /\ UNCHANGED <<regVars, histVars, buff, words, r, interrupted, forkPid,
                   procs, killed, sigchldPending, chldBlocked,
                   hpc, ci, cmdCount, lastOp>>

(* A failed fork that falls through to the return 1 of line 191. *)
ForkFailReturnsOne ==
    /\ MainRuns /\ pc = "fork"
    /\ forkPid' = -1
    /\ ret' = 1
    /\ pc' = "clear"
    /\ UNCHANGED <<regVars, histVars, cmdVars, r, interrupted, procs,
                   killed, sigchldPending, chldBlocked, hpc, ci,
                   cmdCount, fault, lastOp>>

(* lines 169-172: fork fails, execcmd returns -1. *)
ForkFail ==
    /\ MainRuns /\ pc = "fork"
    /\ forkPid' = -1
    /\ ret' = -1
    /\ pc' = "clear"
    /\ UNCHANGED <<regVars, histVars, cmdVars, r, interrupted, procs,
                   killed, sigchldPending, chldBlocked, hpc, ci,
                   cmdCount, fault, lastOp>>

(* A parent that waits for every child, marked or not. *)
ForkOkAlwaysWaits ==
    /\ MainRuns /\ pc = "fork"
    /\ nextPid <= MaxSpawn
    /\ forkPid' = nextPid
    /\ nextPid' = nextPid + 1
    /\ procs' = [procs EXCEPT ![nextPid] = "forked"]
    /\ pc' = "wait"
    /\ UNCHANGED <<children, numChildren, heap, freeList, reuse, members,
                   histVars, cmdVars, r, interrupted, ret, killed,
                   sigchldPending, chldBlocked, hpc, ci, cmdCount, fault,
                   lastOp>>

(* lines 169, 180-188: fork succeeds; the parent goes to the wait loop or  *)
(* to addChild.                                                            *)
ForkOk ==
    /\ MainRuns /\ pc = "fork"
    /\ nextPid <= MaxSpawn
    /\ forkPid' = nextPid
    /\ nextPid' = nextPid + 1
    /\ procs' = [procs EXCEPT ![nextPid] = "forked"]
    /\ pc' = IF background = 0 THEN "wait" ELSE "add_block"
    /\ UNCHANGED <<children, numChildren, heap, freeList, reuse, members,
                   histVars, cmdVars, r, interrupted, ret, killed,
                   sigchldPending, chldBlocked, hpc, ci, cmdCount, fault,
                   lastOp>>

(* A wait that is not repeated: execcmd returns after the first child     *)
(* that wait reports, whichever it is.                                     *)
WaitOnce ==
    /\ MainRuns /\ pc = "wait"
    /\ \E z \in Zombies :
          procs' = [procs EXCEPT ![z] = "reaped_wait"]
    /\ ret' = 1
    /\ pc' = "clear"
    /\ UNCHANGED <<regVars, histVars, cmdVars, r, interrupted, forkPid,
                   killed, sigchldPending, chldBlocked, hpc, ci,
                   cmdCount, fault, lastOp>>

(* line 184: while( pid != wait(&status) ): wait reaps whichever child has *)
(* exited; the loop ends when that was the child just forked.  (With no    *)
(* child left wait returns -1 and the loop spins without changing state.)  *)
Wait ==
    /\ MainRuns /\ pc = "wait"
    /\ \E z \in Zombies :
          /\ procs' = [procs EXCEPT ![z] = "reaped_wait"]
          /\ IF z = forkPid
             THEN ret' = 1 /\ pc' = "clear"
             ELSE UNCHANGED <<ret, pc>>
    /\ UNCHANGED <<regVars, histVars, cmdVars, r, interrupted, forkPid,
                   killed, sigchldPending, chldBlocked, hpc, ci,
                   cmdCount, fault, lastOp>>

(* An addChild whose sigprocmask call leaves the mask as it was. *)
AddBlockNoMask ==
    /\ MainRuns /\ pc = "add_block"
    /\ pc' = "add_store"
    /\ UNCHANGED <<regVars, histVars, cmdVars, r, interrupted, forkPid, ret,
                   procs, killed, sigchldPending, chldBlocked, hpc, ci,
                   cmdCount, fault, lastOp>>

(* lines 203-205: addChild blocks SIGCHLD. *)
AddBlock ==
    /\ MainRuns /\ pc = "add_block"
    /\ chldBlocked' = TRUE
    /\ pc' = "add_store"
    /\ UNCHANGED <<regVars, histVars, cmdVars, r, interrupted, forkPid, ret,
                   procs, killed, sigchldPending, hpc, ci,
                   cmdCount, fault, lastOp>>

(* lines 207-209: the pid is stored. *)
AddStore ==
    /\ MainRuns /\ pc = "add_store"
    /\ SetRegistry(AddChildStore(Registry, forkPid, reuse))
    /\ members' = members \cup {forkPid}
    /\ pc' = "add_restore"
    /\ UNCHANGED <<reuse, nextPid, histVars, cmdVars, r, interrupted, forkPid,
                   ret, procs, killed, sigchldPending,
                   chldBlocked, hpc, ci, cmdCount, lastOp>>

(* lines 213, 191: the mask is restored and execcmd returns 1. *)
AddRestore ==
    /\ MainRuns /\ pc = "add_restore"
    /\ chldBlocked' = FALSE
    /\ ret' = 1
    /\ pc' = "clear"
    /\ UNCHANGED <<regVars, histVars, cmdVars, r, interrupted, forkPid,
                   procs, killed, sigchldPending, hpc, ci,
                   cmdCount, fault, lastOp>>

(* lines 59-61: interrupted = 0 and the prompt is displayed. *)
Prompt ==
    /\ MainRuns /\ pc = "clear"
    /\ interrupted' = 0
    /\ pc' = "read"
    /\ UNCHANGED <<regVars, histVars, cmdVars, r, forkPid, ret, procs,
                   killed, sigchldPending, chldBlocked, hpc, ci,
                   cmdCount, fault, lastOp>>

(* lines 241-244: one iteration of cleanup's loop, or its end. *)
Cleanup ==
    /\ MainRuns /\ pc = "cleanup"
    /\ IF numChildren > 0 /\ ci < numChildren
       THEN /\ killed' = killed \cup {heap[children[ci]].val}
            /\ ci' = ci + 1
            /\ pc' = pc
       ELSE /\ pc' = "done"
            /\ UNCHANGED <<killed, ci>>
    /\ UNCHANGED <<regVars, histVars, cmdVars, r, interrupted, forkPid, ret,
                   procs, sigchldPending, chldBlocked, hpc,
                   cmdCount, fault, lastOp>>

(* line 174-178: the child calls execvp; when that fails it exits. *)
ChildExec ==
    /\ fault = "none" /\ pc # "done"
    /\ \E p \in DOMAIN procs :
          /\ procs[p] = "forked"
          /\ \/ /\ procs' = [procs EXCEPT ![p] = "running"]
                /\ UNCHANGED sigchldPending
             \/ /\ procs' = [procs EXCEPT ![p] = "zombie_noexec"]
                /\ sigchldPending' = TRUE
    /\ UNCHANGED <<regVars, histVars, cmdVars, pc, r, interrupted, forkPid,
                   ret, killed, chldBlocked, hpc, ci, cmdCount, fault, lastOp>>

(* The program a child runs terminates (by itself or killed): the child    *)
(* becomes a zombie and SIGCHLD is raised for the shell.                   *)
ChildExit ==
    /\ fault = "none" /\ pc # "done"
    /\ \E p \in DOMAIN procs :
          /\ procs[p] = "running"
          /\ procs' = [procs EXCEPT ![p] = "zombie"]
    /\ sigchldPending' = TRUE
    /\ UNCHANGED <<regVars, histVars, cmdVars, pc, r, interrupted, forkPid,
                   ret, killed, chldBlocked, hpc, ci, cmdCount,
                   fault, lastOp>>

(* line 76, 83: a pending SIGCHLD that is not blocked is delivered. *)
ChldEnter ==
    /\ MainRuns /\ pc # "done"
    /\ sigchldPending /\ ~chldBlocked
    /\ sigchldPending' = FALSE
    /\ hpc' = "chld"
    /\ UNCHANGED <<regVars, histVars, cmdVars, pc, r, interrupted, forkPid,
                   ret, procs, killed, chldBlocked, ci, cmdCount,
                   fault, lastOp>>

(* lines 84-85: waitpid(-1, WNOHANG) returns an exited child, removeChild  *)
(* is called with its pid.                                                 *)
ChldReap ==
    /\ fault = "none" /\ hpc = "chld"
    /\ \E z \in Zombies, openIndex \in {0, 1}, clob \in BOOLEAN :
          /\ procs' = [procs EXCEPT ![z] = "reaped_now"]
          /\ SetRegistry(RemoveChild(Registry, z, openIndex, clob))
          /\ members' = members \ {z}
    /\ UNCHANGED <<reuse, nextPid, histVars, cmdVars, pc, r, interrupted,
                   forkPid, ret, killed, sigchldPending,
                   chldBlocked, hpc, ci, cmdCount, lastOp>>

(* lines 84, 93: waitpid finds no exited child; interrupted = 1 and the    *)
(* handler returns.                                                        *)
ChldReturn ==
    /\ fault = "none" /\ hpc = "chld"
    /\ Zombies = {}
    /\ interrupted' = 1
    /\ hpc' = "none"
    /\ procs' = [p \in DOMAIN procs |->
                    IF procs[p] = "reaped_now" THEN "reaped_handler"
                    ELSE procs[p]]
    /\ ResumeMain
    /\ UNCHANGED <<regVars, histVars, cmdVars, forkPid, ret,
                   killed, sigchldPending, chldBlocked, ci,
                   cmdCount, fault, lastOp>>

(* lines 80-82, 88-93: a signal other than SIGCHLD.  The handler writes    *)
(* the history or the signal's number to the terminal, which is not part   *)
(* of the state here, and sets interrupted = 1.                            *)
Signal ==
    /\ MainRuns /\ pc # "done"
    /\ interrupted' = 1
    /\ ResumeMain
    /\ UNCHANGED <<regVars, histVars, cmdVars,
                   forkPid, ret, procs, killed, sigchldPending,
                   chldBlocked, hpc, ci, cmdCount, fault, lastOp>>

MainStep ==
    \/ LoopTest \/ BodyTest \/ Record \/ Exec \/ ForkFail \/ ForkOk
    \/ Wait \/ AddBlock \/ AddStore \/ AddRestore \/ Prompt \/ Cleanup

HandlerStep == ChldEnter \/ ChldReap \/ ChldReturn

Next ==
    \/ ReadLine \/ ReadEof \/ LoopTest \/ BodyTest \/ Record \/ Exec
    \/ ForkFail \/ ForkOk \/ Wait \/ AddBlock \/ AddStore \/ AddRestore
    \/ Prompt \/ Cleanup
    \/ ChildExec \/ ChildExit
    \/ ChldEnter \/ ChldReap \/ ChldReturn \/ Signal

Spec == Init /\ [][Next]_vars

(* The main flow and the handler run whenever they can; nothing makes a    *)
(* child exit, a signal arrive or a line be typed.                         *)
FairSpec == Spec /\ WF_vars(MainStep) /\ WF_vars(HandlerStep)

----------------------------------------------------------------------------
(* Properties of the registry, checked under SpecRegistry *)

\* C1: after any sequence of addChild and removeChild calls with no pid
\* registered twice, the pids found in children[0..numChildren-1] are
\* exactly the set obtained by insert and delete in the same order.
C1_RegistryIsTheSet == HeldPids(Registry) = members

\* C7: addChild never stores outside children[0..31] and numChildren stays
\* within 0..32.
C7_AddChildWithinCapacity ==
    /\ numChildren \in 0..ChildrenLen
    /\ fault # "oob_add"

\* C9: removeChild with a pid that is not in the registry leaves
\* numChildren and the slots unchanged and stores to no slot outside
\* children[0..numChildren-1], whatever openIndex starts as.
C9_RemoveAbsentIsNoOp ==
    [][ (lastOp'.op = "remove" /\ lastOp'.pid \notin HeldPids(Registry))
          => /\ children' = children
             /\ numChildren' = numChildren
             /\ heap' = heap
             /\ fault' = "none" ]_vars

----------------------------------------------------------------------------
(* Properties of the history ring, checked under SpecHistory *)

LastN(seq, n) ==
    IF Len(seq) <= n THEN seq ELSE SubSeq(seq, Len(seq) - n + 1, Len(seq))

\* C8: printHistory writes the lines recorded so far when there are at most
\* HISTORY_SIZE of them, and otherwise exactly the HISTORY_SIZE most recent
\* ones, oldest first and newest last.
C8_PrintsMostRecent ==
    lastOp.op = "print" => out = LastN(recorded, HISTORY_SIZE)

C8_Witness ==
    /\ lastOp.op = "print"
    /\ Len(recorded) > HISTORY_SIZE
    /\ Len(out) = HISTORY_SIZE
    /\ out[1] = Len(recorded) - HISTORY_SIZE + 1

----------------------------------------------------------------------------
(* Properties of the command parser, checked under SpecParse *)

HasTrailingMarker(ws) == ws # <<>> /\ Last(Last(ws)) = "&"

StripMarker(ws) ==
    IF Last(ws) = <<"&">> THEN Front(ws)
    ELSE [ws EXCEPT ![Len(ws)] = Front(Last(ws))]

\* C5: a line of 1 to MAX_ARGS words is dispatched as background exactly
\* when its last word ends in the marker (attached, or the word "&" alone);
\* the marker is then stripped from the argument vector, and a line with
\* no trailing marker is dispatched as foreground with its words unchanged.
C5_BackgroundIffTrailingMarker ==
    (lastOp.op = "parsed" /\ Len(words) \in 1..MAX_ARGS)
      => /\ fault = "none"
         /\ background = (IF HasTrailingMarker(words) THEN 1 ELSE 0)
         /\ argv = (IF HasTrailingMarker(words) THEN StripMarker(words)
                    ELSE words)

\* C15: for a line of any number of words, the tokens and the NULL that
\* ends them are stored at indices 0..MAX_ARGS-1 of tokens[] only, so the
\* argument vector has at most MAX_ARGS-1 tokens before its NULL.
C15_TokensWithinArray ==
    lastOp.op = "parsed"
      => /\ fault # "oob_tokens"
         /\ Len(argv) + 1 <= MAX_ARGS

----------------------------------------------------------------------------
(* Properties of the shell, checked under Spec and FairSpec *)

\* C2: when cleanup has run after end of input, every child that is still
\* running has been sent SIGKILL.  (A foreground child has been reaped
\* before its execcmd call returned, so the children still running at
\* that point are background children.)
C2_NoChildLeftRunning ==
    pc = "done" => \A p \in DOMAIN procs : Running(p) => p \in killed

\* C3: a foreground execcmd call leaves its wait loop only in a step that
\* makes the child it forked reaped; reaping another child keeps it waiting.
C3_FgReturnsAfterOwnChild ==
    [][ (pc = "wait" /\ pc' # "wait")
          => procs'[forkPid] \in {"reaped_wait", "reaped_now",
                                  "reaped_handler"} ]_vars

C3_Witness ==
    /\ pc = "wait"
    /\ Running(forkPid)
    /\ \E p \in DOMAIN procs : p # forkPid /\ procs[p] = "reaped_wait"

\* C4: once the child of a foreground command has terminated, the execcmd
\* call returns and the shell goes on to the next prompt, wherever the
\* SIGCHLD handler runs (as long as no fault stops the program).
C4_FgCallReturns ==
    (pc = "wait" /\ ~Running(forkPid) /\ fault = "none")
      ~> (pc = "clear" \/ fault # "none")

ZeroTokens(str) == \A k \in 1..Len(str) : str[k] \in FirstDelims

\* C6: execcmd on a line without any token creates no process, leaves the
\* registry alone, makes no invalid access and returns to the prompt.
C6_BlankLineIsNoOp ==
    [][ (pc = "exec" /\ hpc = "none" /\ ZeroTokens(buff)
            /\ <<pc, fault>>' # <<pc, fault>>)
          => /\ fault' = "none"
             /\ pc' = "clear"
             /\ procs' = procs
             /\ children' = children
             /\ numChildren' = numChildren ]_vars

\* C10: a failed fork makes execcmd return -1 at once, with no process
\* created and the registry unchanged, and the loop goes on to the prompt;
\* after a successful fork execcmd goes to the wait loop or to addChild and
\* the value it returns is 1.
C10_ForkOutcome ==
    [][ /\ (pc = "fork" /\ pc' # "fork" /\ nextPid' = nextPid)
            => /\ ret' = -1
               /\ pc' = "clear"
               /\ procs' = procs
               /\ children' = children
               /\ numChildren' = numChildren
               /\ heap' = heap
        /\ (pc = "fork" /\ nextPid' # nextPid)
            => /\ pc' \in {"wait", "add_block"}
               /\ procs'[forkPid'] = "forked"
        /\ (pc \in {"wait", "add_restore"} /\ pc' = "clear") => ret' = 1
        /\ (pc = "clear" /\ pc' # "clear") => pc' = "read" ]_vars

C10_Witness ==
    /\ pc = "clear"
    /\ ret = -1
    /\ forkPid = -1
    /\ \E p \in DOMAIN procs : procs[p] = "zombie_noexec"

Dispatching ==
    pc \in {"record", "exec", "fork", "wait",
            "add_block", "add_store", "add_restore"}

\* C11: once read has returned zero the shell records and dispatches no
\* further command (it goes to cleanup and exits), also when interrupted
\* is set at the moment read returns zero.
C11_NoDispatchAfterEof == lastOp.op = "eof" => ~Dispatching

\* C12: the pid of a background child is never stored in the registry
\* after the SIGCHLD handler has reaped that child (and has called
\* removeChild for it).
C12_NoInsertAfterReap ==
    [][ (pc = "add_store" /\ pc' = "add_restore")
          => procs[forkPid] # "reaped_handler" ]_vars

\* C13: when a run of the SIGCHLD handler returns, no exited child is left
\* unreaped and no pid this run reaped is found in
\* children[0..numChildren-1].
C13_HandlerDrains ==
    [][ (hpc = "chld" /\ hpc' = "none")
          => /\ Zombies = {}
             /\ \A p \in DOMAIN procs :
                   procs[p] = "reaped_now" => p \notin HeldPids(Registry) ]_vars

\* C14: while the main flow is in read, no handler runs and no SIGCHLD is
\* pending, every pid found in children[0..numChildren-1] is the pid of a
\* child that has not been reaped.
C14_PresenceImpliesAlive ==
    (pc = "read" /\ hpc = "none" /\ ~sigchldPending /\ fault = "none")
      => \A v \in HeldPids(Registry) :
            /\ v \in DOMAIN procs
            /\ procs[v] \notin {"reaped_wait", "reaped_handler"}

\* C16: after a read that a signal interrupted (r = -1) the loop is not
\* left, nothing is recorded and nothing is dispatched; interrupted is
\* cleared and the shell is back at the prompt and in read.
C16_InterruptedReadReprompts ==
    [][ (r = -1 /\ pc \in {"while", "if", "clear"})
          => /\ pc = "while" => pc' \in {"while", "if"}
             /\ pc = "if" => pc' \in {"if", "clear"}
             /\ pc = "clear" =>
                   \/ pc' = "clear"
                   \/ pc' = "read" /\ interrupted' = 0
             /\ history' = history
             /\ histInd' = histInd
             /\ recorded' = recorded
             /\ nextPid' = nextPid ]_vars

C16_Witness ==
    /\ pc = "read"
    /\ r = -1
    /\ interrupted = 0

AddChildSteps == {"add_block", "add_store", "add_restore"}

\* C17: after a successful fork a background execcmd call goes straight to
\* addChild, reaps no child, stores the forked pid once and returns 1.
C17_BackgroundDoesNotWait ==
    [][ /\ (pc = "fork" /\ background = 1 /\ nextPid' # nextPid)
            => pc' = "add_block"
        /\ pc' = "wait" => background' = 0
        /\ pc \in AddChildSteps
            => \A p \in DOMAIN procs :
                  procs'[p] = "reaped_wait" => procs[p] = "reaped_wait"
        /\ (pc = "add_block" /\ pc' # pc) => pc' = "add_store"
        /\ (pc = "add_store" /\ pc' # pc /\ numChildren < ChildrenLen)
            => /\ pc' = "add_restore"
               /\ numChildren' = numChildren + 1
               /\ heap'[children'[numChildren]] =
                     [live |-> TRUE, val |-> forkPid]
        /\ numChildren' > numChildren => pc = "add_store"
        /\ (pc = "add_restore" /\ pc' # pc)
            => pc' = "clear" /\ ret' = 1 ]_vars

C17_Witness ==
    /\ pc = "read"
    /\ background = 1
    /\ ret = 1
    /\ Running(forkPid)
    /\ forkPid \in HeldPids(Registry)

\* C18: the main flow changes the registry only with SIGCHLD blocked; the
\* SIGCHLD handler does not run between addChild's two sigprocmask calls,
\* and a SIGCHLD pending in between is still pending, and no longer
\* blocked, when the mask has been restored.
C18_RegistrationIsMasked ==
    [][ /\ pc' \in {"add_store", "add_restore"}
            => chldBlocked' /\ hpc' = "none"
        /\ (hpc = "none" /\ <<children, numChildren>>' # <<children, numChildren>>)
            => chldBlocked
        /\ (pc \in {"add_store", "add_restore"} /\ sigchldPending)
            => sigchldPending'
        /\ (pc = "add_restore" /\ pc' # pc) => ~chldBlocked' ]_vars

C18_Witness ==
    /\ pc = "clear"
    /\ background = 1
    /\ ret = 1
    /\ sigchldPending
    /\ ~chldBlocked
    /\ procs[forkPid] \in {"zombie", "zombie_noexec"}
    /\ forkPid \in HeldPids(Registry)

\* C19: a line that read returned complete, with more than one byte, is
\* recorded and handed to execcmd, whenever a signal was handled.
C19_CompleteLineIsDispatched ==
    [][ (pc = "if" /\ r > 1 /\ pc' # pc) => pc' = "record" ]_vars

----------------------------------------------------------------------------
(* Property of the history ring under the SIGINT handler, checked under    *)
(* SpecHistory *)

\* C20: wherever the SIGINT handler can run, also between two statements
\* of recordcmd, no slot of history that is not NULL refers to a freed
\* entry, and printHistory called from the handler reads no freed entry.
C20_NoFreedEntryInHistory ==
    /\ FreedSlots(History) = {}
    /\ fault # "use_after_free"

====
